---- MODULE Spec2Model ----
(***************************************************************************)
(* cleast: the enriched AST of a clingo logic program.                     *)
(*                                                                         *)
(* State machine of one Python process that uses the library: the          *)
(* class-level counter Constraint.id, direct calls of ASTLine.factory, and *)
(* the life of one Cleast object (constructor steps in the order of        *)
(* Cleast.__init__, then the query methods on the constructed object).     *)
(***************************************************************************)
EXTENDS Integers, Sequences, FiniteSets, TLC

(* ---------------------------------------------------------------------- *)
(* Bounds of the model                                                     *)
(* ---------------------------------------------------------------------- *)
MaxNodes == 2          \* longest ast_list handed to the constructor
MaxFileLines == 2      \* longest source text (number of lines)
MaxConstraints == 2    \* most Constraint objects constructed in the process

(* ---------------------------------------------------------------------- *)
(* clingo AST values (the input of the library)                            *)
(*                                                                         *)
(* A node is a record; kids is the sequence of <<child key, child>> in the *)
(* order of ast.child_keys.  An ASTSequence is a node of ast_type          *)
(* "ASTSequence" whose kids are its elements (key "").  ASTType members    *)
(* are capitalised strings, child keys are lower-case strings, so the two  *)
(* never compare equal, as an ASTType member never equals a str.           *)
(* ---------------------------------------------------------------------- *)
MainFile == "main.lp"
IncFile == "inc.lp"

Node(t, kids) ==
    [ast_type |-> t, name |-> "", arity |-> 0, line |-> 0, col |-> 0,
     filename |-> "", kids |-> kids]

(* An optional child that is absent: None.                                 *)
NoneNode == Node("None", <<>>)

ASTSeq(elems) == Node("ASTSequence", [i \in 1..Len(elems) |-> <<"", elems[i]>>])

(* A Variable term at line l, column c.                                    *)
Var(n, l, c) == [Node("Variable", <<>>) EXCEPT !.name = n, !.line = l, !.col = c]

(* A SymbolicAtom n(X) or n; its child `symbol' is the Function term.      *)
Atom(n, a, l, c) ==
    [ast_type |-> "SymbolicAtom", name |-> n, arity |-> a, line |-> l, col |-> c,
     filename |-> "",
     kids |-> << <<"symbol",
                   Node("Function", << <<"arguments",
                       Node("ASTSequence",
                            [i \in 1..a |-> <<"", Var("X", l, c + 1 + i)>>])>> >>)>> >>]

Lit(a) == Node("Literal", << <<"atom", a>> >>)

CondLit(l, cond) ==
    Node("ConditionalLiteral", << <<"literal", l>>, <<"condition", ASTSeq(cond)>> >>)

RuleNode(head, body) == Node("Rule", << <<"head", head>>, <<"body", ASTSeq(body)>> >>)

At(n, f, l) == [n EXCEPT !.filename = f, !.line = l]

(* The statements the node lists are drawn from, each placed at line l.    *)
StmtShapes(l) == <<
    \* p(X) :- q(X), not r(X).
    RuleNode(Lit(Atom("p", 1, l, 1)), <<Lit(Atom("q", 1, l, 9)), Lit(Atom("r", 1, l, 19))>>),
    \* a.
    RuleNode(Lit(Atom("a", 0, l, 1)), <<>>),
    \* :- b, c.
    RuleNode(Lit(Node("BooleanConstant", <<>>)), <<Lit(Atom("b", 0, l, 4)), Lit(Atom("c", 0, l, 7))>>),
    \* a : s :- b.
    RuleNode(Node("Disjunction", << <<"elements",
                 ASTSeq(<<CondLit(Lit(Atom("a", 0, l, 1)), <<Lit(Atom("s", 0, l, 5))>>)>>)>> >>),
             <<Lit(Atom("b", 0, l, 10))>>),
    \* p :- q : s.
    RuleNode(Lit(Atom("p", 0, l, 1)),
             <<CondLit(Lit(Atom("q", 0, l, 6)), <<Lit(Atom("s", 0, l, 10))>>)>>),
    \* #count { X : p(X) : q(X) } :- b.
    RuleNode(Node("HeadAggregate", <<
                 <<"left_guard", NoneNode>>,
                 <<"elements",
                   ASTSeq(<<Node("HeadAggregateElement", <<
                       <<"terms", ASTSeq(<<Var("X", l, 10)>>)>>,
                       <<"condition",
                         CondLit(Lit(Atom("p", 1, l, 14)), <<Lit(Atom("q", 1, l, 21))>>)>> >>)>>)>>,
                 <<"right_guard", NoneNode>> >>),
             <<Lit(Atom("b", 0, l, 31))>>),
    \* :- 1 < 0.
    RuleNode(Lit(Node("BooleanConstant", <<>>)), <<Lit(Node("Comparison", <<>>))>>),
    \* #program base.
    Node("Program", << <<"parameters", ASTSeq(<<>>)>> >>),
    \* #external e : b.
    Node("External", << <<"atom", Atom("e", 0, l, 11)>>,
                        <<"body", ASTSeq(<<Lit(Atom("b", 0, l, 15))>>)>>,
                        <<"external_type", Node("SymbolicTerm", <<>>)>> >>),
    \* #show t : q.
    [Node("ShowTerm", << <<"term", Node("Function", <<>>)>>,
                         <<"body", ASTSeq(<<Lit(Atom("q", 0, l, 11))>>)>> >>) EXCEPT !.name = "t"],
    \* #defined d/1.
    [Node("Defined", <<>>) EXCEPT !.name = "d", !.arity = 1],
    \* #const n = 1.
    [Node("Definition", << <<"value", Node("SymbolicTerm", <<>>)>> >>) EXCEPT !.name = "n"],
    \* #show p/1.
    [Node("ShowSignature", <<>>) EXCEPT !.name = "p", !.arity = 1]
>>

NShapes == Len(StmtShapes(1))

(* Statement number k at line l of file f.                                 *)
Stmt(k, f, l) == At(StmtShapes(l)[k], f, l)

(* The node lists: node i of a list is on line i (clingo counts lines from *)
(* one).  The first node is any statement of the primary file, or the rule *)
(* or the constraint of the included file; the nodes after it are the rule *)
(* of the primary file.                                                    *)
FirstChoices ==
    {<<k, MainFile>> : k \in 1..NShapes} \cup {<<1, IncFile>>, <<3, IncFile>>}
NextChoices == {<<1, MainFile>>}

RECURSIVE AstLists(_)
AstLists(n) ==
    IF n = 0 THEN {<<>>}
    ELSE LET shorter == AstLists(n - 1) IN
         shorter \cup
         { Append(s, Stmt(c[1], c[2], Len(s) + 1)) :
             s \in {t \in shorter : Len(t) = n - 1},
             c \in IF n = 1 THEN FirstChoices ELSE NextChoices }

(* ---------------------------------------------------------------------- *)
(* Symbol (symbol.py is not part of the sources at hand)                   *)
(* ---------------------------------------------------------------------- *)
NoSignature == <<>>

(* Symbol(ast, None): a detached reference, no signature.                  *)
DetachedSymbol(atom) ==
    [name |-> atom.name, line |-> atom.line, col |-> atom.col,
     signature |-> NoSignature, detached |-> TRUE]

(* A symbol made by Symbol.extract_symbols: carries its signature.         *)
ExtractedSymbol(atom) ==
    [name |-> atom.name, line |-> atom.line, col |-> atom.col,
     signature |-> <<atom.name, atom.arity>>, detached |-> FALSE]

KeyOf(x) == <<x.name, x.line, x.col>>

(* All SymbolicAtom nodes below a node, in traversal order.                *)
RECURSIVE AtomsOf(_)
RECURSIVE AtomsOfKids(_, _)
AtomsOf(ast) ==
    IF ast.ast_type = "SymbolicAtom" THEN <<ast>>
    ELSE AtomsOfKids(ast.kids, 1)
AtomsOfKids(kids, i) ==
    IF i > Len(kids) THEN <<>>
    ELSE AtomsOf(kids[i][2]) \o AtomsOfKids(kids, i + 1)

RECURSIVE extract_symbols(_, _)
extract_symbols(ast_list, current_file) ==
    IF ast_list = <<>> THEN <<>>
    ELSE LET ast == Head(ast_list)
             here == IF ast.filename = current_file
                     THEN [i \in 1..Len(AtomsOf(ast)) |-> ExtractedSymbol(AtomsOf(ast)[i])]
                     ELSE <<>>
         IN here \o extract_symbols(Tail(ast_list), current_file)

(* ---------------------------------------------------------------------- *)
(* Cleast.get_symbol                                                       *)
(* symbol_dict is a set of <<key, symbol>> pairs with one pair per key.    *)
(* ---------------------------------------------------------------------- *)
DictKeys(d) == {e[1] : e \in d}
DictGet(d, k) == (CHOOSE e \in d : e[1] = k)[2]

get_symbol(symbol_dict, ast) ==
    LET key == <<ast.name, ast.line, ast.col>> IN
    IF key \in DictKeys(symbol_dict) THEN DictGet(symbol_dict, key)
    ELSE DetachedSymbol(ast)

(* ---------------------------------------------------------------------- *)
(* ASTLine.build_ast_lines.deep_search_sym_dep                             *)
(* The walk threads sym, dep and the trace (a stack: append / pop).        *)
(* ---------------------------------------------------------------------- *)
Push(trace, m) == Append(trace, m)
Pop(trace) == SubSeq(trace, 1, Len(trace) - 1)
InTrace(m, trace) == \E i \in 1..Len(trace) : trace[i] = m

(* if a: -- None and an empty ASTSequence are falsy                        *)
Truthy(a) == ~(a.ast_type = "None" \/ (a.ast_type = "ASTSequence" /\ Len(a.kids) = 0))

(* bool(s) of a str: the empty string alone is falsy                       *)
StrTruthy(s) == s # ""

(* The branch taken at a SymbolicAtom (lines 118-131): TRUE for sym.add,   *)
(* FALSE for dep.add.  `elif "body":' tests the string literal itself, not *)
(* its membership in the trace.                                            *)
GoesToSym(trace) ==
    IF InTrace("head", trace)
    THEN ~(InTrace("head", trace) /\ InTrace("ConditionalLiteral", trace)
             /\ InTrace("condition", trace))
    ELSE IF StrTruthy("body") THEN FALSE ELSE TRUE

RECURSIVE deep_search_sym_dep(_, _, _)
RECURSIVE deep_search_elems(_, _, _, _)
RECURSIVE deep_search_children(_, _, _, _)
RECURSIVE deep_search_children_no_pop(_, _, _, _)
(* st = [sym, dep, trace]; symbol_dict is cleast.symbol_dict at call time. *)
deep_search_sym_dep(ast, st, symbol_dict) ==
    IF ast.ast_type = "ASTSequence"
    THEN LET s1 == [st EXCEPT !.trace = Push(st.trace, "ASTSequence")]
             s2 == deep_search_elems(ast.kids, 1, s1, symbol_dict)
         IN [s2 EXCEPT !.trace = Pop(s2.trace)]
    ELSE LET s1 == [st EXCEPT !.trace = Push(st.trace, ast.ast_type)]
             s2 == IF ast.ast_type = "SymbolicAtom"
                   THEN IF GoesToSym(s1.trace)
                        THEN [s1 EXCEPT !.sym = @ \cup {get_symbol(symbol_dict, ast)}]
                        ELSE [s1 EXCEPT !.dep = @ \cup {get_symbol(symbol_dict, ast)}]
                   ELSE deep_search_children(ast.kids, 1, s1, symbol_dict)
         IN [s2 EXCEPT !.trace = Pop(s2.trace)]

deep_search_elems(kids, i, st, symbol_dict) ==
    IF i > Len(kids) THEN st
    ELSE deep_search_elems(kids, i + 1,
                           deep_search_sym_dep(kids[i][2], st, symbol_dict), symbol_dict)

(* The walk of the child fields with the child key left on the trace.      *)
deep_search_children_no_pop(kids, i, st, symbol_dict) ==
    IF i > Len(kids) THEN st
    ELSE LET child == kids[i][1]
             a == kids[i][2]
             s1 == IF Truthy(a)
                   THEN deep_search_sym_dep(a, [st EXCEPT !.trace = Push(st.trace, child)],
                                            symbol_dict)
                   ELSE st
         IN deep_search_children_no_pop(kids, i + 1, s1, symbol_dict)

deep_search_children(kids, i, st, symbol_dict) ==
    IF i > Len(kids) THEN st
    ELSE LET child == kids[i][1]
             a == kids[i][2]
             s1 == IF Truthy(a)
                   THEN LET pushed == [st EXCEPT !.trace = Push(st.trace, child)]
                            walked == deep_search_sym_dep(a, pushed, symbol_dict)
                        IN [walked EXCEPT !.trace = Pop(walked.trace)]
                   ELSE st
         IN deep_search_children(kids, i + 1, s1, symbol_dict)

(* ---------------------------------------------------------------------- *)
(* Comment.extract_comments                                                *)
(* A line of the file is a sequence of characters; the file is a sequence  *)
(* of lines.  enumerate() counts rows from 0, so row number idx_row is the *)
(* line file[idx_row + 1] of the sequence.                                 *)
(* ---------------------------------------------------------------------- *)
LineTexts == {
    <<"x", "%", "x">>,      \* code followed by a single-line comment
    <<"%", "*", "x">>,      \* opens a multi-line comment
    <<"x", "*", "%">>       \* closes a multi-line comment
}

RECURSIVE Files(_)
Files(n) ==
    IF n = 0 THEN {<<>>}
    ELSE LET shorter == Files(n - 1) IN
         shorter \cup {Append(f, t) : f \in {g \in shorter : Len(g) = n - 1}, t \in LineTexts}

CharAt(line, i) == IF i + 1 <= Len(line) THEN line[i + 1] ELSE ""

NoMatch == -1
Least(S) == IF S = {} THEN NoMatch ELSE CHOOSE i \in S : \A j \in S : i <= j

\* single_line_pattern.search(line).start(): the first "%" that no "*" follows
single_line_pattern(line) ==
    Least({i \in 0..(Len(line) - 1) : CharAt(line, i) = "%" /\ CharAt(line, i + 1) # "*"})

\* multi_line_start.search(line).start(): the first "%" that a "*" follows
multi_line_start(line) ==
    Least({i \in 0..(Len(line) - 1) : CharAt(line, i) = "%" /\ CharAt(line, i + 1) = "*"})

\* multi_line_end.search(line).end(): the column after the first "*" "%" pair
multi_line_end(line) ==
    LET at == Least({i \in 0..(Len(line) - 1) :
                        CharAt(line, i) = "*" /\ CharAt(line, i + 1) = "%"})
    IN IF at = NoMatch THEN NoMatch ELSE at + 2

Comment(begin_line, begin_col, end_line, large_comment) ==
    [kind |-> "Comment", begin_line |-> begin_line, begin_col |-> begin_col,
     end_line |-> end_line, large_comment |-> large_comment]

(* The loop body for row idx_row; st = [comments, in_comment, begin].      *)
extract_row(st, idx_row, line) ==
    IF ~st.in_comment
    THEN LET m1 == single_line_pattern(line)
             s1 == IF m1 # NoMatch
                   THEN [st EXCEPT !.comments = Append(@, Comment(idx_row, m1 + 1, idx_row, FALSE)),
                                   !.begin = <<idx_row, m1 + 1>>]
                   ELSE st
             m2 == multi_line_start(line)
         IN IF m2 # NoMatch
            THEN [s1 EXCEPT !.begin = <<idx_row, m2 + 1>>, !.in_comment = TRUE]
            ELSE s1
    ELSE LET m == multi_line_end(line)
         IN IF m # NoMatch
            THEN [st EXCEPT !.comments = Append(@, Comment(st.begin[1], st.begin[2], idx_row, TRUE)),
                            !.in_comment = FALSE]
            ELSE st

RECURSIVE extract_rows(_, _, _)
extract_rows(file, idx_row, st) ==
    IF idx_row >= Len(file) THEN st
    ELSE extract_rows(file, idx_row + 1, extract_row(st, idx_row, file[idx_row + 1]))

extract_comments(file) ==
    extract_rows(file, 0, [comments |-> <<>>, in_comment |-> FALSE, begin |-> <<0, 0>>]).comments

(* ---------------------------------------------------------------------- *)
(* Directives (directive.py is not part of the sources at hand).           *)
(* Cleast uses the result as a mapping from a kind tag to the directives   *)
(* of that kind; here the files carry section directives only.             *)
(* ---------------------------------------------------------------------- *)
Directive(n) == [kind |-> "section", line_number |-> n]

(* The section directives of a file of n lines, as extracted: at most m,   *)
(* in any order; Distinct keeps the lists with one directive to a row.     *)
RECURSIVE SectionLists(_, _)
SectionLists(n, m) ==
    IF m = 0 THEN {<<>>}
    ELSE LET shorter == SectionLists(n, m - 1) IN
         shorter \cup
         { Append(s, Directive(r)) :
             s \in {t \in shorter : Len(t) = m - 1},
             r \in 0..(n - 1) }

Distinct(s) == \A a, b \in 1..Len(s) : a # b => s[a].line_number # s[b].line_number

extract_directives(sections) ==
    [k \in (IF sections # <<>> THEN {"section"} ELSE {}) |-> sections]

(* dict.get(key): the value, or None (here the empty sequence)             *)
directives_get(directives, key) ==
    IF key \in DOMAIN directives THEN directives[key] ELSE <<>>

(* ---------------------------------------------------------------------- *)
(* Variable.extract_variables                                              *)
(* ---------------------------------------------------------------------- *)
Variable(var) ==
    [kind |-> "Variable", name |-> var.name, line |-> var.line, col |-> var.col]

RECURSIVE rec_extraction(_)
RECURSIVE rec_extraction_elems(_, _)
RECURSIVE rec_extraction_kids(_, _)
rec_extraction(ast) ==
    IF ast.ast_type = "ASTSequence" THEN rec_extraction_elems(ast.kids, 1)
    ELSE IF ast.ast_type = "Variable" THEN <<Variable(ast)>>
    ELSE rec_extraction_kids(ast.kids, 1)
rec_extraction_elems(kids, i) ==
    IF i > Len(kids) THEN <<>>
    ELSE rec_extraction(kids[i][2]) \o rec_extraction_elems(kids, i + 1)
rec_extraction_kids(kids, i) ==
    IF i > Len(kids) THEN <<>>
    ELSE (IF Truthy(kids[i][2]) THEN rec_extraction(kids[i][2]) ELSE <<>>)
         \o rec_extraction_kids(kids, i + 1)

RECURSIVE extract_variables(_, _)
extract_variables(ast_list, current_file_path) ==
    IF ast_list = <<>> THEN <<>>
    ELSE (IF Head(ast_list).filename = current_file_path
          THEN rec_extraction(Head(ast_list)) ELSE <<>>)
         \o extract_variables(Tail(ast_list), current_file_path)

(* ---------------------------------------------------------------------- *)
(* ASTLine and its subclasses; ASTLine.factory                             *)
(* ---------------------------------------------------------------------- *)
ASTLineType == {"Rule", "Constraint", "Fact", "Definition", "Input", "Constant", "Output"}

NoSection == <<>>      \* section = None; a section is held as <<directive>>

(* ASTLine.__init__ followed by the assignments of the subclass; the       *)
(* prefix string is not modelled.                                          *)
ASTLine(type, ast, define, dependencies, identifier) ==
    [kind |-> "ASTLine", type |-> type, ast |-> ast, define |-> define,
     dependencies |-> dependencies, section |-> NoSection, comments |-> <<>>,
     identifier |-> identifier]

(* The constructor without the increment of the class counter.            *)
Constraint_init_no_increment(ast, define, dependencies, id) ==
    [obj |-> ASTLine("Constraint", ast, define, dependencies, <<"Constraint#", id>>),
     id |-> id]

(* Constraint.__init__: self.id = Constraint.id; Constraint.id += 1.       *)
(* The result is the object and the class counter after the call.          *)
Constraint_init(ast, define, dependencies, id) ==
    [obj |-> ASTLine("Constraint", ast, define, dependencies, <<"Constraint#", id>>),
     id |-> id + 1]

(* first is list(self.define)[0]: some element of the set define.          *)
Rule_init(ast, define, dependencies, first) ==
    ASTLine("Rule", ast, define, dependencies, first.signature)

Fact_init(ast, define, dependencies, first) ==
    ASTLine("Fact", ast, define, dependencies, first.signature)

(* The dispatch with the tests of Fact and Constraint exchanged.           *)
factory_exchanged(ast, define, dependencies, section, comments, first, id) ==
    LET made ==
          IF ast.ast_type = "Rule"
          THEN IF define # {} /\ dependencies # {}
               THEN [ret |-> <<Rule_init(ast, define, dependencies, first)>>, id |-> id]
               ELSE IF ~(define # {}) /\ dependencies # {}
               THEN [ret |-> <<Fact_init(ast, define, dependencies, first)>>, id |-> id]
               ELSE IF define # {} /\ ~(dependencies # {})
               THEN LET c == Constraint_init(ast, define, dependencies, id)
                    IN [ret |-> <<c.obj>>, id |-> c.id]
               ELSE [ret |-> <<>>, id |-> id]
          ELSE IF ast.ast_type = "Defined"
               THEN [ret |-> <<ASTLine("Input", ast, define, dependencies,
                                       <<ast.name, ast.arity>>)>>, id |-> id]
               ELSE IF ast.ast_type = "Definition"
               THEN [ret |-> <<ASTLine("Definition", ast, define, dependencies,
                                       <<ast.name>>)>>, id |-> id]
               ELSE IF ast.ast_type = "ShowSignature" \/ ast.ast_type = "ShowTerm"
               THEN [ret |-> <<ASTLine("Output", ast, define, dependencies,
                                       <<ast.name, ast.arity>>)>>, id |-> id]
               ELSE [ret |-> <<>>, id |-> id]
    IN IF made.ret # <<>>
       THEN [made EXCEPT !.ret = <<[made.ret[1] EXCEPT !.section = section,
                                                       !.comments = comments]>>]
       ELSE made

(* factory returns ret (<<>> for None, <<object>> otherwise) and the class *)
(* counter Constraint.id after the call.                                   *)
factory(ast, define, dependencies, section, comments, first, id) ==
    LET made ==
          IF ast.ast_type = "Rule"
          THEN IF define # {} /\ dependencies # {}
               THEN [ret |-> <<Rule_init(ast, define, dependencies, first)>>, id |-> id]
               ELSE IF define # {} /\ ~(dependencies # {})
               THEN [ret |-> <<Fact_init(ast, define, dependencies, first)>>, id |-> id]
               ELSE IF ~(define # {}) /\ dependencies # {}
               THEN LET c == Constraint_init(ast, define, dependencies, id)
                    IN [ret |-> <<c.obj>>, id |-> c.id]
               ELSE [ret |-> <<>>, id |-> id]
          ELSE IF ast.ast_type = "Defined"
               THEN [ret |-> <<ASTLine("Input", ast, define, dependencies,
                                       <<ast.name, ast.arity>>)>>, id |-> id]
               ELSE IF ast.ast_type = "Definition"
               THEN [ret |-> <<ASTLine("Definition", ast, define, dependencies,
                                       <<ast.name>>)>>, id |-> id]
               ELSE IF ast.ast_type = "ShowSignature" \/ ast.ast_type = "ShowTerm"
               THEN [ret |-> <<ASTLine("Output", ast, define, dependencies,
                                       <<ast.name, ast.arity>>)>>, id |-> id]
               ELSE [ret |-> <<>>, id |-> id]
    IN IF made.ret # <<>>
       THEN [made EXCEPT !.ret = <<[made.ret[1] EXCEPT !.section = section,
                                                       !.comments = comments]>>]
       ELSE made

(* ---------------------------------------------------------------------- *)
(* Cleast: the methods the class defines, and its queries                  *)
(* ---------------------------------------------------------------------- *)
CleastMethods ==
    {"__init__", "from_file", "get_comments", "get_sections", "get_symbol",
     "get_line", "get_ast_lines"}

(* sorted(directives["section"], key=line_number): stable.                 *)
RECURSIVE sorted(_)
InsertAfterEqual(d, s) ==
    LET n == Cardinality({j \in 1..Len(s) : s[j].line_number <= d.line_number})
    IN SubSeq(s, 1, n) \o <<d>> \o SubSeq(s, n + 1, Len(s))
(* The sections left in the order of extraction.                           *)
sorted_as_extracted(s) == s

sorted(s) ==
    IF s = <<>> THEN <<>>
    ELSE InsertAfterEqual(s[Len(s)], sorted(SubSeq(s, 1, Len(s) - 1)))

(* The dictionary built by the loop of lines 57-63: a later symbol with    *)
(* the same key replaces an earlier one.                                   *)
build_symbol_dict(symbols) ==
    { <<KeyOf(symbols[j]), symbols[j]>> :
        j \in {a \in 1..Len(symbols) :
                 \A b \in (a + 1)..Len(symbols) : KeyOf(symbols[b]) # KeyOf(symbols[a])} }

(* get_comments(ast)                                                       *)
get_comments(comments, ast) ==
    LET line_number == ast.line
        OnLine(comment) == line_number = comment.begin_line
    IN SelectSeq(comments, OnLine)

(* get_sections(obj): <<directive>>, or NoSection for None                 *)
RECURSIVE get_sections_scan(_, _, _, _)
get_sections_scan(sections, j, line, current_section) ==
    IF j > Len(sections) THEN current_section
    ELSE IF sections[j].line_number < line
         THEN get_sections_scan(sections, j + 1, line, <<sections[j]>>)
         ELSE current_section

get_sections(sorted_sections, obj) ==
    get_sections_scan(sorted_sections, 1, obj.line - 1, NoSection)

(* get_ast_lines(kind, local): the returned list, and self.ast_lines after *)
(* the call.  kind is a member of ASTLineType or "None".                   *)
get_ast_lines(self_ast_lines, self_external_ast_lines, kind, local) ==
    LET copy == self_ast_lines
        all_ast == IF ~local THEN copy \o self_external_ast_lines ELSE copy
        OfKind(ast_line) == ast_line.type = kind
    IN [ret |-> IF kind # "None" THEN SelectSeq(all_ast, OfKind) ELSE all_ast,
        ast_lines |-> self_ast_lines]

(* get_line(line).  Extending a list with a mapping adds its keys, which   *)
(* are str objects: reading .location of one raises AttributeError.  A     *)
(* match appends the list ret to itself.  The result is whether the call   *)
(* raised, the returned list, and self.comments after the call.            *)
StrElem(k) == [kind |-> "str", value |-> k]
RetItself == [kind |-> "list", value |-> "ret"]

BeginLine(elem) ==
    IF elem.kind = "Comment" THEN elem.begin_line
    ELSE IF elem.kind = "Variable" THEN elem.line
    ELSE elem.ast.line

RECURSIVE get_line_scan(_, _, _, _)
get_line_scan(all_elem, j, line, ret) ==
    IF j > Len(all_elem) THEN [raised |-> FALSE, ret |-> ret]
    ELSE IF all_elem[j].kind = "str" THEN [raised |-> TRUE, ret |-> <<>>]
    ELSE IF BeginLine(all_elem[j]) = line \/ BeginLine(all_elem[j]) - 1 = line
         THEN get_line_scan(all_elem, j + 1, line, Append(ret, RetItself))
         ELSE get_line_scan(all_elem, j + 1, line, ret)

KeyList(directives) ==
    IF "section" \in DOMAIN directives THEN <<StrElem("section")>> ELSE <<>>

(* get_line with all_elem bound to self.comments instead of a new list.    *)
get_line_aliased(directives, self_comments, variables, ast_lines, line) ==
    LET a1 == self_comments \o KeyList(directives)
        a2 == a1 \o a1
        all_elem == a2 \o variables \o ast_lines
        r == get_line_scan(all_elem, 1, line, <<>>)
    IN [raised |-> r.raised, ret |-> r.ret, comments |-> all_elem]

get_line(directives, self_comments, variables, ast_lines, line) ==
    LET all_elem == KeyList(directives) \o self_comments \o variables \o ast_lines
        r == get_line_scan(all_elem, 1, line, <<>>)
    IN [raised |-> r.raised, ret |-> r.ret, comments |-> self_comments]

(* ---------------------------------------------------------------------- *)
(* State                                                                   *)
(* ---------------------------------------------------------------------- *)
VARIABLES
    Constraint_id,        \* the class attribute Constraint.id
    issued,               \* identifiers given to the Constraint objects made so far
    ret,                  \* what the last direct call of ASTLine.factory returned
    pc,                   \* where the client / the constructor stands
    ast_list,             \* constructor argument
    file,                 \* self.file
    directives,           \* self.directives
    comments,             \* self.comments
    symbols,              \* self.symbols
    symbol_dict,          \* self.symbol_dict
    variables,            \* self.variables
    i,                    \* build_ast_lines: number of the node of the loop
    walked,               \* number of the node deep_search_sym_dep ran on last
    syms,                 \* build_ast_lines: syms of that walk
    dependencies,         \* build_ast_lines: dependencies of that walk
    ast_lines,            \* ast_lines of build_ast_lines, then self.ast_lines
    external_ast_lines,   \* the same for external_ast_lines
    sorted_sections,      \* self._sorted_sections
    result                \* the last query and what it returned

model_vars == <<directives, comments, symbols, symbol_dict, variables,
                ast_lines, external_ast_lines, sorted_sections>>
vars == <<Constraint_id, issued, ret, pc, ast_list, file, directives, comments,
          symbols, symbol_dict, variables, i, walked, syms, dependencies,
          ast_lines, external_ast_lines, sorted_sections, result>>

NoResult == [op |-> "none", arg |-> <<>>, raised |-> FALSE, value |-> <<>>]

NoObject ==
    /\ ast_list = <<>> /\ file = <<>>
    /\ directives = extract_directives(<<>>)
    /\ comments = <<>> /\ symbols = <<>> /\ symbol_dict = {} /\ variables = <<>>
    /\ i = 0 /\ walked = 0 /\ syms = {} /\ dependencies = {}
    /\ ast_lines = <<>> /\ external_ast_lines = <<>> /\ sorted_sections = <<>>
    /\ result = NoResult

Init ==
    /\ Constraint_id = 0
    /\ issued = <<>>
    /\ ret = <<>>
    /\ pc = "idle"
    /\ NoObject

(* ---------------------------------------------------------------------- *)
(* A direct call of ASTLine.factory by the client                          *)
(* ---------------------------------------------------------------------- *)
ClassifyNodes == {Stmt(c[1], c[2], 1) : c \in FirstChoices}
ClassifySymbols ==
    {ExtractedSymbol(Atom("p", 1, 1, 1)), DetachedSymbol(Atom("q", 1, 1, 9))}

Classify ==
    /\ pc = "idle"
    /\ Constraint_id < MaxConstraints
    /\ \E ast \in ClassifyNodes, define \in SUBSET ClassifySymbols,
          deps \in SUBSET ClassifySymbols :
         \E first \in (IF define = {} THEN ClassifySymbols ELSE define) :
           LET r == factory(ast, define, deps, NoSection, <<>>, first, Constraint_id)
           IN /\ ret' = r.ret
              /\ Constraint_id' = r.id
              /\ issued' = IF r.ret # <<>> /\ r.ret[1].type = "Constraint"
                           THEN Append(issued, r.ret[1].identifier)
                           ELSE issued
    /\ pc' = "classified"
    /\ UNCHANGED <<ast_list, file, directives, comments, symbols, symbol_dict,
                   variables, i, walked, syms, dependencies, ast_lines,
                   external_ast_lines, sorted_sections, result>>

(* The client drops the object it got.                                     *)
Release ==
    /\ pc = "classified"
    /\ pc' = "idle"
    /\ ret' = <<>>
    /\ UNCHANGED <<Constraint_id, issued, ast_list, file, directives, comments,
                   symbols, symbol_dict, variables, i, walked, syms, dependencies,
                   ast_lines, external_ast_lines, sorted_sections, result>>

(* ---------------------------------------------------------------------- *)
(* Cleast.__init__, lines 34-50: the extractions                           *)
(* ---------------------------------------------------------------------- *)
Cleast_init_extract ==
    /\ pc = "idle"
    /\ \E al \in AstLists(MaxNodes), f \in Files(MaxFileLines) :
         \E secs \in {s \in SectionLists(Len(f), Len(f)) : Distinct(s)} :
           /\ ast_list' = al
           /\ file' = f
           /\ directives' = extract_directives(secs)
           /\ comments' = extract_comments(f)
           /\ symbols' = extract_symbols(al, MainFile)
           /\ variables' = extract_variables(al, MainFile)
    /\ symbol_dict' = {}
    /\ i' = 1
    /\ pc' = "build_ast_lines"
    /\ UNCHANGED <<Constraint_id, issued, ret, walked, syms, dependencies,
                   ast_lines, external_ast_lines, sorted_sections, result>>

(* ---------------------------------------------------------------------- *)
(* ASTLine.build_ast_lines, lines 146-161: one turn of the loop.  The      *)
(* arguments of factory are evaluated first; cleast.get_section is an      *)
(* attribute lookup on the Cleast object, which raises AttributeError      *)
(* when the class defines no such name, and the constructor ends there.    *)
(* ---------------------------------------------------------------------- *)
BuildAstLines_iter ==
    /\ pc = "build_ast_lines"
    /\ i <= Len(ast_list)
    /\ LET ast == ast_list[i]
           w == deep_search_sym_dep(ast, [sym |-> {}, dep |-> {}, trace |-> <<>>],
                                    symbol_dict)
       IN /\ walked' = i
          /\ syms' = w.sym
          /\ dependencies' = w.dep
          /\ IF "get_section" \in CleastMethods
             THEN \E first \in (IF w.sym = {} THEN {DetachedSymbol(ast)} ELSE w.sym) :
                    LET al == factory(ast, w.sym, w.dep,
                                      get_sections(sorted_sections, ast),
                                      get_comments(comments, ast), first, Constraint_id)
                    IN /\ Constraint_id' = al.id
                       /\ issued' = IF al.ret # <<>> /\ al.ret[1].type = "Constraint"
                                    THEN Append(issued, al.ret[1].identifier)
                                    ELSE issued
                       /\ IF al.ret # <<>>
                          THEN IF ast.filename = MainFile
                               THEN /\ ast_lines' = Append(ast_lines, al.ret[1])
                                    /\ UNCHANGED external_ast_lines
                               ELSE /\ external_ast_lines' =
                                         Append(external_ast_lines, al.ret[1])
                                    /\ UNCHANGED ast_lines
                          ELSE UNCHANGED <<ast_lines, external_ast_lines>>
                       /\ i' = i + 1
                       /\ pc' = pc
             ELSE /\ pc' = "raised"
                  /\ UNCHANGED <<Constraint_id, issued, i, ast_lines, external_ast_lines>>
    /\ UNCHANGED <<ret, ast_list, file, directives, comments, symbols, symbol_dict,
                   variables, sorted_sections, result>>

(* line 163: the loop is over, the two lists are returned                  *)
BuildAstLines_return ==
    /\ pc = "build_ast_lines"
    /\ i > Len(ast_list)
    /\ pc' = "index"
    /\ UNCHANGED <<Constraint_id, issued, ret, ast_list, file, directives, comments,
                   symbols, symbol_dict, variables, i, walked, syms, dependencies,
                   ast_lines, external_ast_lines, sorted_sections, result>>

(* Cleast.__init__, lines 56-70: the symbol dictionary, the sorted sections *)
Cleast_init_index ==
    /\ pc = "index"
    /\ symbol_dict' = build_symbol_dict(symbols)
    /\ sorted_sections' = IF directives_get(directives, "section") # <<>>
                          THEN sorted(directives["section"])
                          ELSE <<>>
    /\ pc' = "built"
    /\ UNCHANGED <<Constraint_id, issued, ret, ast_list, file, directives, comments,
                   symbols, variables, i, walked, syms, dependencies,
                   ast_lines, external_ast_lines, result>>

(* ---------------------------------------------------------------------- *)
(* Queries on the constructed object                                       *)
(* ---------------------------------------------------------------------- *)
(* The entities handed to a query: anything with a location; the parser    *)
(* counts lines from one.                                                  *)
QueryLines == 1..(MaxFileLines + 1)
QueryKinds == {"Rule", "Constraint", "None"}
QueryNode(l) == Stmt(1, MainFile, l)

Get_ast_lines ==
    /\ pc = "built"
    /\ \E kind \in QueryKinds, local \in BOOLEAN :
         LET r == get_ast_lines(ast_lines, external_ast_lines, kind, local)
         IN /\ result' = [op |-> "get_ast_lines", arg |-> <<kind, local>>,
                          raised |-> FALSE, value |-> r.ret]
            /\ ast_lines' = r.ast_lines
    /\ UNCHANGED <<Constraint_id, issued, ret, pc, ast_list, file, directives,
                   comments, symbols, symbol_dict, variables, i, walked, syms,
                   dependencies, external_ast_lines, sorted_sections>>

Get_comments ==
    /\ pc = "built"
    /\ \E l \in QueryLines :
         result' = [op |-> "get_comments", arg |-> <<l>>, raised |-> FALSE,
                    value |-> get_comments(comments, QueryNode(l))]
    /\ UNCHANGED <<Constraint_id, issued, ret, pc, ast_list, file, directives,
                   comments, symbols, symbol_dict, variables, i, walked, syms,
                   dependencies, ast_lines, external_ast_lines, sorted_sections>>

Get_sections ==
    /\ pc = "built"
    /\ \E l \in QueryLines :
         result' = [op |-> "get_sections", arg |-> <<l>>, raised |-> FALSE,
                    value |-> get_sections(sorted_sections, QueryNode(l))]
    /\ UNCHANGED <<Constraint_id, issued, ret, pc, ast_list, file, directives,
                   comments, symbols, symbol_dict, variables, i, walked, syms,
                   dependencies, ast_lines, external_ast_lines, sorted_sections>>

Get_symbol ==
    /\ pc = "built"
    /\ \E l \in QueryLines :
         result' = [op |-> "get_symbol", arg |-> <<l>>, raised |-> FALSE,
                    value |-> <<get_symbol(symbol_dict, Atom("p", 1, l, 1))>>]
    /\ UNCHANGED <<Constraint_id, issued, ret, pc, ast_list, file, directives,
                   comments, symbols, symbol_dict, variables, i, walked, syms,
                   dependencies, ast_lines, external_ast_lines, sorted_sections>>

Get_line ==
    /\ pc = "built"
    /\ \E line \in 0..MaxFileLines :
         LET r == get_line(directives, comments, variables, ast_lines, line)
         IN /\ result' = [op |-> "get_line", arg |-> <<line>>, raised |-> r.raised,
                          value |-> r.ret]
            /\ comments' = r.comments
    /\ UNCHANGED <<Constraint_id, issued, ret, pc, ast_list, file, directives,
                   symbols, symbol_dict, variables, i, walked, syms,
                   dependencies, ast_lines, external_ast_lines, sorted_sections>>

(* The client lets go of the object, or of the exception of a constructor  *)
(* that raised.                                                            *)
Discard ==
    /\ pc \in {"built", "raised"}
    /\ pc' = "idle"
    /\ ast_list' = <<>> /\ file' = <<>>
    /\ directives' = extract_directives(<<>>)
    /\ comments' = <<>> /\ symbols' = <<>> /\ symbol_dict' = {} /\ variables' = <<>>
    /\ i' = 0 /\ walked' = 0 /\ syms' = {} /\ dependencies' = {}
    /\ ast_lines' = <<>> /\ external_ast_lines' = <<>> /\ sorted_sections' = <<>>
    /\ result' = NoResult
    /\ UNCHANGED <<Constraint_id, issued, ret>>

Next ==
    \/ Classify
    \/ Release
    \/ Cleast_init_extract
    \/ BuildAstLines_iter
    \/ BuildAstLines_return
    \/ Cleast_init_index
    \/ Get_ast_lines
    \/ Get_comments
    \/ Get_sections
    \/ Get_symbol
    \/ Get_line
    \/ Discard

Spec == Init /\ [][Next]_vars

(* ---------------------------------------------------------------------- *)
(* Properties                                                              *)
(* ---------------------------------------------------------------------- *)
Range(s) == {s[j] : j \in 1..Len(s)}

(* The atomic-proposition references below a node, each with the set of    *)
(* markers on the path from the root to it (the node types, the child keys *)
(* and the sequence marker met on the way down).                           *)
RECURSIVE PathRefs(_, _)
PathRefs(ast, markers) ==
    LET here == markers \cup {ast.ast_type} IN
    IF ast.ast_type = "SymbolicAtom" THEN {[atom |-> ast, markers |-> here]}
    ELSE IF ast.ast_type = "ASTSequence"
    THEN UNION {PathRefs(ast.kids[j][2], here) : j \in 1..Len(ast.kids)}
    ELSE UNION {PathRefs(ast.kids[j][2], here \cup {ast.kids[j][1]}) :
                  j \in {k \in 1..Len(ast.kids) : Truthy(ast.kids[k][2])}}

InDefines(atom) == \E o \in syms : KeyOf(o) = KeyOf(atom)
InDependencies(atom) == \E o \in dependencies : KeyOf(o) = KeyOf(atom)

(* name/arity of the reference an object of syms or dependencies stands for *)
RefSignature(o) ==
    LET a == CHOOSE r \in PathRefs(ast_list[walked], {}) : KeyOf(r.atom) = KeyOf(o)
    IN <<a.atom.name, a.atom.arity>>

IsRulePQR(ast) == [ast EXCEPT !.filename = MainFile] = Stmt(1, MainFile, ast.line)

(* C1: after the resolver walk of a statement, every reference whose path  *)
(* markers contain "head", a conditional-literal marker and "condition" is *)
(* in dependencies and not in defines; otherwise one whose markers contain *)
(* "head" is in defines and not in dependencies; otherwise one whose       *)
(* markers contain "body" is in dependencies and not in defines; and for   *)
(* p(X) :- q(X), not r(X). defines is {p/1}, dependencies is {q/1, r/1}.   *)
C1_ResolverRoles ==
    walked > 0 =>
      /\ \A r \in PathRefs(ast_list[walked], {}) :
           LET inCondition == "ConditionalLiteral" \in r.markers /\ "condition" \in r.markers
           IN /\ ("head" \in r.markers /\ inCondition)
                   => (InDependencies(r.atom) /\ ~InDefines(r.atom))
              /\ ("head" \in r.markers /\ ~inCondition)
                   => (InDefines(r.atom) /\ ~InDependencies(r.atom))
              /\ ("head" \notin r.markers /\ "body" \in r.markers)
                   => (InDependencies(r.atom) /\ ~InDefines(r.atom))
      /\ IsRulePQR(ast_list[walked])
           => /\ {RefSignature(o) : o \in syms} = {<<"p", 1>>}
              /\ {RefSignature(o) : o \in dependencies} = {<<"q", 1>>, <<"r", 1>>}

(* C1 witness: the walk of `a : s :- b.' is over: s, in the condition of a *)
(* conditional literal of the head, is a dependency, a is defined.         *)
C1_Witness ==
    /\ walked > 0
    /\ \E r \in PathRefs(ast_list[walked], {}) :
         /\ {"head", "ConditionalLiteral", "condition"} \subseteq r.markers
         /\ r.atom.name = "s"
         /\ InDependencies(r.atom)
    /\ {o.name : o \in syms} = {"a"}
    /\ {o.name : o \in dependencies} = {"s", "b"}

KindInvariant(st) ==
    /\ st.type = "Fact" => (st.define # {} /\ st.dependencies = {})
    /\ st.type = "Constraint" => (st.define = {} /\ st.dependencies # {})
    /\ st.type = "Rule" => (st.define # {} /\ st.dependencies # {})
    /\ st.ast.ast_type = "Rule" => st.type \notin {"Input", "Definition", "Output"}

(* C2: every statement the classifier has produced, and every statement of *)
(* statements and external_statements, satisfies the invariant of its      *)
(* kind, and a rule-shaped node is never an Input, Definition or Output.   *)
C2_KindInvariant ==
    \A st \in Range(ret) \cup Range(ast_lines) \cup Range(external_ast_lines) :
        KindInvariant(st)

(* C2 witness: the classifier has just produced a Constraint.              *)
C2_Witness ==
    /\ pc = "classified"
    /\ ret # <<>>
    /\ ret[1].type = "Constraint"
    /\ ret[1].ast.ast_type = "Rule"

NewStatements ==
    (IF pc = "idle" /\ pc' = "classified" THEN Range(ret') ELSE {})
    \cup (IF Len(ast_lines') > Len(ast_lines) THEN {ast_lines'[Len(ast_lines')]} ELSE {})
    \cup (IF Len(external_ast_lines') > Len(external_ast_lines)
          THEN {external_ast_lines'[Len(external_ast_lines')]} ELSE {})

NewConstraints == {st \in NewStatements : st.type = "Constraint"}

(* C3: the k-th Constraint constructed in the process, counting from 0,    *)
(* gets the identifier Constraint#k; the counter goes up by one with each  *)
(* Constraint construction and does not change in any other step, so no    *)
(* two Constraint objects share an identifier.                             *)
C3_ConstraintCounter ==
    [][ /\ \A st \in NewConstraints :
             /\ st.identifier = <<"Constraint#", Len(issued)>>
             /\ st.identifier \notin Range(issued)
        /\ Constraint_id' = Constraint_id + Cardinality(NewConstraints)
        /\ Len(issued') = Len(issued) + Cardinality(NewConstraints)
      ]_vars

(* C3 witness: the second Constraint of the process has been constructed.  *)
C3_Witness ==
    /\ Len(issued) = 2
    /\ ret # <<>>
    /\ ret[1].identifier = <<"Constraint#", 1>>
    /\ issued[1] = <<"Constraint#", 0>>

(* What deep_search_sym_dep and factory make of a node                     *)
WalkOf(ast) == deep_search_sym_dep(ast, [sym |-> {}, dep |-> {}, trace |-> <<>>], {})
ClassOf(ast) ==
    LET w == WalkOf(ast)
        first == IF w.sym = {} THEN DetachedSymbol(ast) ELSE CHOOSE o \in w.sym : TRUE
    IN factory(ast, w.sym, w.dep, NoSection, <<>>, first, 0).ret
Classifiable(ast) == ClassOf(ast) # <<>>

NodesOf(statements) == [j \in 1..Len(statements) |-> statements[j].ast]

ExpectedNodes(kind, includeExternal) ==
    LET Wanted(ast) == /\ Classifiable(ast)
                       /\ ClassOf(ast)[1].type = kind
                       /\ (includeExternal \/ ast.filename = MainFile)
    IN SelectSeq(ast_list, Wanted)

(* C4: once the constructor has been given a node list, the statements of  *)
(* a kind come back from getStatementsByKind in the order of their nodes   *)
(* in that list, the local ones alone or together with the external ones.  *)
C4_StatementsByKind ==
    pc \in {"built", "raised"} =>
      /\ pc = "built"
      /\ \A kind \in ASTLineType, includeExternal \in BOOLEAN :
           NodesOf(get_ast_lines(ast_lines, external_ast_lines, kind,
                                 ~includeExternal).ret)
             = ExpectedNodes(kind, includeExternal)

Sections == directives_get(directives, "section")

(* C5: getSection of an entity beginning at line L is the section          *)
(* directive of greatest line number among those of line number below      *)
(* L - 1, in whatever order the directives were extracted, and none when   *)
(* there is no such directive; with sections at lines 5 and 20 it is the   *)
(* line-20 directive for L = 22 and none for L = 3.                        *)
C5_NearestSection ==
    /\ (pc = "built" /\ result.op = "get_sections") =>
         LET L == result.arg[1]
             below == {d \in Range(Sections) : d.line_number < L - 1}
         IN IF below = {} THEN result.value = NoSection
            ELSE /\ result.value # NoSection
                 /\ result.value[1] \in below
                 /\ \A d \in below : d.line_number <= result.value[1].line_number
    /\ \A order \in {<<Directive(5), Directive(20)>>, <<Directive(20), Directive(5)>>} :
         /\ get_sections(sorted(order), QueryNode(22)) = <<Directive(20)>>
         /\ get_sections(sorted(order), QueryNode(3)) = NoSection

(* C5 witness: two sections extracted in descending order of line, and a   *)
(* query for an entity below both has returned the later one.              *)
C5_Witness ==
    /\ pc = "built"
    /\ result.op = "get_sections"
    /\ Len(Sections) = 2
    /\ Sections[1].line_number > Sections[2].line_number
    /\ result.value = <<Sections[1]>>

(* Row idx_row of enumerate(file) is line idx_row + 1 of the text.         *)
PhysicalLine(comment) == comment.begin_line + 1

(* C6: getCommentsAt of a node the parser places on line L returns the     *)
(* comments that begin on line L of the text, in extraction order.         *)
C6_CommentsAt ==
    (pc = "built" /\ result.op = "get_comments") =>
      LET L == result.arg[1]
          SameLine(c) == PhysicalLine(c) = L
      IN result.value = SelectSeq(comments, SameLine)

EntityLine(e) == IF e.kind = "section" THEN e.line_number ELSE BeginLine(e)

(* C7: getElementsAtLine(line) returns, without an error, the directives,  *)
(* comments, variables and local statements that begin at line or at       *)
(* line + 1, each once and as itself, and nothing else.                    *)
C7_ElementsAtLine ==
    (pc = "built" /\ result.op = "get_line") =>
      LET line == result.arg[1]
          Matches(e) == EntityLine(e) = line \/ EntityLine(e) = line + 1
          expected == SelectSeq(Sections, Matches) \o SelectSeq(comments, Matches)
                        \o SelectSeq(variables, Matches) \o SelectSeq(ast_lines, Matches)
      IN /\ ~result.raised
         /\ Len(result.value) = Len(expected)
         /\ \A j \in 1..Len(expected) :
              /\ result.value[j].kind = expected[j].kind
              /\ result.value[j] = expected[j]

(* C8: a constructor given a node list with an unclassifiable node does    *)
(* not abort: it returns, and every classifiable node of the list has its  *)
(* statement in the model.                                                 *)
C8_BuildNeverAborts ==
    (pc \in {"built", "raised"} /\ \E j \in 1..Len(ast_list) : ~Classifiable(ast_list[j])) =>
      /\ pc = "built"
      /\ LET Local(ast) == Classifiable(ast) /\ ast.filename = MainFile
             External(ast) == Classifiable(ast) /\ ast.filename # MainFile
         IN /\ NodesOf(ast_lines) = SelectSeq(ast_list, Local)
            /\ NodesOf(external_ast_lines) = SelectSeq(ast_list, External)

(* C9: a query on a constructed model changes neither the statements, the  *)
(* external statements, the symbol index, the sorted sections, the         *)
(* comments, the variables, the directives nor the constraint counter, and *)
(* asking getStatementsByKind again gives the sequence it has just given.  *)
C9_QueriesReadOnly ==
    [][ (pc = "built" /\ pc' = "built") =>
          /\ UNCHANGED <<model_vars, Constraint_id, issued>>
          /\ result'.op = "get_ast_lines" =>
               result'.value = get_ast_lines(ast_lines', external_ast_lines',
                                             result'.arg[1], result'.arg[2]).ret
      ]_vars

(* C9 witness: getElementsAtLine has been asked of a model with comments.  *)
C9_Witness ==
    /\ pc = "built"
    /\ result.op = "get_line"
    /\ comments # <<>>

(* C10: a reference the walk resolves whose key belongs to an extracted    *)
(* symbol is put into defines or dependencies as that extracted symbol.    *)
C10_CanonicalSymbols ==
    walked > 0 =>
      \A atom \in Range(AtomsOf(ast_list[walked])) :
        (\E e \in Range(symbols) : KeyOf(e) = KeyOf(atom)) =>
          \A o \in syms \cup dependencies :
            KeyOf(o) = KeyOf(atom) => (o \in Range(symbols) /\ o.signature # NoSignature)

(* C11: after the resolver walk of a statement, every reference whose path *)
(* markers contain neither "head" nor "body" (the atom of an #external     *)
(* statement is one) is in defines and not in dependencies.                *)
C11_ResolverFallback ==
    walked > 0 =>
      \A r \in PathRefs(ast_list[walked], {}) :
        ("head" \notin r.markers /\ "body" \notin r.markers)
          => (InDefines(r.atom) /\ ~InDependencies(r.atom))

====
